---- MODULE Spec2Model ----
(***************************************************************************)
(* A model of src/db.ts: the repository layer over the Supabase kv_data    *)
(* table (k: string, v: jsonb).  Every backend round-trip (an await on     *)
(* supabase) is one atomic step of the table; the synchronous code between *)
(* two awaits belongs to the step that precedes it.  Callers are the       *)
(* processes of Procs: each runs one repository call at a time, any number *)
(* of them concurrently.                                                   *)
(***************************************************************************)
EXTENDS Naturals, Integers, Sequences, FiniteSets, TLC

VARIABLES
  kv,      \* the kv_data table: a function from the key column k to the value v
  now,     \* Date.now()
  nextId,  \* how many ids crypto.randomUUID() has handed out
  proc,    \* proc[p]: the call process p is in, with its locals
  ghost    \* history kept for the properties only; the code never reads it

vars == <<kv, now, nextId, proc, ghost>>

-----------------------------------------------------------------------------
(* Bounds of the model *)

NumProcs == 2         \* concurrent callers
MaxIds == 1           \* ids handed out while callers race
MaxSeqIds == 2        \* ids handed out to a single caller
MaxFailCount == 4     \* failCount is not incremented beyond this
MaxRequestCount == 3  \* requestCount is not incremented beyond this
MaxTime == 1          \* Date.now() stops here
MaxTimestamp == 4     \* the timestamps of the logs callers append
MaxLogs == 4          \* logs appended in all
MaxSetting == 2       \* the values a setting takes are 0..MaxSetting

Procs == 1..NumProcs

(* Config (./config.ts) *)
MAX_FAIL_NUM == 3
MAX_REQUEST_RECORD_NUM == 2
DEFAULT_CTO_COOKIES == <<"ck-a", "ck-b">>
DEFAULT_CHAT_APIKEYS == <<"sk-a">>

-----------------------------------------------------------------------------
(* KV wrapper *)

\* JavaScript's null
Null == [isNull |-> TRUE]

\* String(x) as Array.prototype.join applies it to a segment
Str(x) == LET s == ToString(x) IN IF SubSeq(s, 1, 1) = "\"" THEN x ELSE s

RECURSIVE Join(_, _)
Join(key, sep) ==
  IF Len(key) = 0 THEN ""
  ELSE IF Len(key) = 1 THEN Str(key[1])
  ELSE Str(key[1]) \o sep \o Join(Tail(key), sep)

makeKey(key) == Join(key, ":")

\* the row's v, or null when no row has k (.single() reports an error then)
kvGet(key) ==
  LET k == makeKey(key) IN IF k \in DOMAIN kv THEN kv[k] ELSE Null

\* upsert({k, v}): the table after the write
kvSet(key, value) ==
  LET k == makeKey(key) IN
  [x \in DOMAIN kv \cup {k} |-> IF x = k THEN value ELSE kv[x]]

\* kvGet that reads on although the select reported an error
kvGetResult_IgnoresError(key, error) == kvGet(key)

\* kvSet that repeats a failed upsert until it succeeds
kvSetResult_Retries(key, value, error) == kvSet(key, value)

\* kvGet over a backend whose select may fail: if (error) return null
kvGetResult(key, error) == IF error THEN Null ELSE kvGet(key)

\* kvSet over a backend whose upsert may fail: the { error } the client
\* resolves to is dropped, and the table is as it was
kvSetResult(key, value, error) == IF error THEN kv ELSE kvSet(key, value)

\* delete().eq("k", k): the table after the delete
kvDelete(key) ==
  LET k == makeKey(key) IN [x \in DOMAIN kv \ {k} |-> kv[x]]

\* k LIKE 'p%'
StartsWith(k, p) == Len(p) <= Len(k) /\ SubSeq(k, 1, Len(p)) = p

\* the keys of the rows .like("k", `${p}%`) selects
kvListKeys(prefix) == {k \in DOMAIN kv : StartsWith(k, makeKey(prefix))}

\* the sequences that hold each element of S once: the orders in which the
\* backend may return the rows of a select without ORDER BY
RECURSIVE Orders(_)
Orders(S) ==
  IF S = {} THEN {<<>>}
  ELSE UNION {{<<x>> \o t : t \in Orders(S \ {x})} : x \in S}

\* the results kvList(prefix) may return: {key, value} rows in any order
kvList(prefix) ==
  {[i \in 1..Len(o) |-> [key |-> o[i], value |-> kv[o[i]]]] :
     o \in Orders(kvListKeys(prefix))}

\* crypto.randomUUID(): an id never handed out before
randomUUID == "id" \o ToString(nextId + 1)

\* {...a, ...b}
Spread(a, b) ==
  [f \in DOMAIN a \cup DOMAIN b |-> IF f \in DOMAIN b THEN b[f] ELSE a[f]]

Idle == [pc |-> "idle"]

\* a call may start when the caller is not inside another one
Ready(p) == proc[p].pc \in {"idle", "done"}

\* the call returns ret; the caller keeps what it called and what it got
Return(p, op, id, ret) ==
  proc' = [proc EXCEPT ![p] = [pc |-> "done", op |-> op, id |-> id, ret |-> ret]]

\* the same for a Promise<void>
ReturnVoid(p, op, id) ==
  proc' = [proc EXCEPT ![p] = [pc |-> "done", op |-> op, id |-> id]]

\* the comparators of the module: (a, b) => a[field] - b[field], or b - a
Cmp(a, b, field, desc) == IF desc THEN b[field] - a[field] ELSE a[field] - b[field]

\* Array.prototype.sort(cmp), which is stable: x, the last of the input, goes
\* before the first element that cmp puts after it
RECURSIVE Insert(_, _, _, _)
Insert(x, sorted, field, desc) ==
  IF sorted = <<>> THEN <<x>>
  ELSE IF Cmp(x, Head(sorted), field, desc) < 0 THEN <<x>> \o sorted
  ELSE <<Head(sorted)>> \o Insert(x, Tail(sorted), field, desc)

RECURSIVE Sort(_, _, _)
Sort(seq, field, desc) ==
  IF seq = <<>> THEN <<>>
  ELSE Insert(seq[Len(seq)], Sort(SubSeq(seq, 1, Len(seq) - 1), field, desc), field, desc)

\* list.map(item => item.value)
Values(list) == [i \in 1..Len(list) |-> list[i].value]

\* Date.now() advances
Tick ==
  /\ now < MaxTime
  /\ now' = now + 1
  /\ UNCHANGED <<kv, nextId, proc>>

-----------------------------------------------------------------------------
(* CookieDB *)

CookiePREFIX == <<"cookies">>

CookieKey(id) == CookiePREFIX \o <<id>>

\* getAll without its sort: the values in the order of the scan
CookieDB_getAll_Unsorted == {Values(list) : list \in kvList(CookiePREFIX)}

\* the results getAll may return, one for each order of the scan
CookieDB_getAll == {Sort(Values(list), "createdAt", FALSE) : list \in kvList(CookiePREFIX)}

CookieDB_get(id) == kvGet(CookieKey(id))

\* newCookie of add
NewCookie(cookie) ==
  Spread(cookie, [id |-> randomUUID, createdAt |-> now, updatedAt |-> now])

\* add that draws a second id for the key it writes under
CookieDB_add_OtherKey(p, cookie) ==
  /\ Ready(p)
  /\ LET newCookie == NewCookie(cookie)
     IN /\ kv' = kvSet(CookieKey("id" \o ToString(nextId + 2)), newCookie)
        /\ Return(p, "add", newCookie.id, newCookie)
  /\ nextId' = nextId + 1
  /\ UNCHANGED now

CookieDB_add(p, cookie) ==
  /\ Ready(p)
  /\ LET newCookie == NewCookie(cookie)
     IN /\ kv' = kvSet(CookieKey(newCookie.id), newCookie)
        /\ Return(p, "add", newCookie.id, newCookie)
  /\ nextId' = nextId + 1
  /\ UNCHANGED now

\* update returns to its caller, and incrementFailCount and resetFailCount,
\* which await it, return nothing to theirs
UpdateReturn(p, op, id, ret) ==
  IF op = "update" THEN Return(p, op, id, ret) ELSE ReturnVoid(p, op, id)

\* update without the test of existing: a missing record is merged into as
\* an empty one
CookieDB_update_get_Creates(p, op, id, updates) ==
  LET existing == CookieDB_get(id) IN
  /\ proc' = [proc EXCEPT ![p] =
       [pc |-> "upd_set", op |-> op, id |-> id, updates |-> updates,
        existing |-> IF existing = Null THEN [id |-> id] ELSE existing]]
  /\ UNCHANGED <<kv, now, nextId>>

\* update, up to its kvSet: existing = await this.get(id); if (!existing) return false
CookieDB_update_get(p, op, id, updates) ==
  LET existing == CookieDB_get(id) IN
  /\ IF existing = Null
       THEN UpdateReturn(p, op, id, FALSE)
       ELSE proc' = [proc EXCEPT ![p] =
              [pc |-> "upd_set", op |-> op, id |-> id, updates |-> updates,
               existing |-> existing]]
  /\ UNCHANGED <<kv, now, nextId>>

\* {...existing, ...updates, updatedAt: Date.now()}
CookieUpdated(existing, updates) ==
  Spread(Spread(existing, updates), [updatedAt |-> now])

\* update that merges into the row as it is stored at the write, not as read
CookieDB_update_set_Reread(p) ==
  /\ proc[p].pc = "upd_set"
  /\ proc[p].op \in {"update", "incrementFailCount", "resetFailCount"}
  /\ kv' = kvSet(CookieKey(proc[p].id), CookieUpdated(CookieDB_get(proc[p].id), proc[p].updates))
  /\ UpdateReturn(p, proc[p].op, proc[p].id, TRUE)
  /\ UNCHANGED <<now, nextId>>

\* update, from the merge to its return: await kvSet(...); return true
CookieDB_update_set(p) ==
  /\ proc[p].pc = "upd_set"
  /\ proc[p].op \in {"update", "incrementFailCount", "resetFailCount"}
  /\ kv' = kvSet(CookieKey(proc[p].id), CookieUpdated(proc[p].existing, proc[p].updates))
  /\ UpdateReturn(p, proc[p].op, proc[p].id, TRUE)
  /\ UNCHANGED <<now, nextId>>

CookieDB_update(p, id, updates) ==
  /\ Ready(p)
  /\ CookieDB_update_get(p, "update", id, updates)

\* if (!existing || existing.isDefault) return false
CookieDeleteRefused(existing) == existing = Null \/ existing.isDefault

\* delete, up to its kvDelete
CookieDB_delete(p, id) ==
  /\ Ready(p)
  /\ IF CookieDeleteRefused(CookieDB_get(id))
       THEN Return(p, "delete", id, FALSE)
       ELSE proc' = [proc EXCEPT ![p] = [pc |-> "del_delete", op |-> "delete", id |-> id]]
  /\ UNCHANGED <<kv, now, nextId>>

\* await kvDelete(...); return true
CookieDB_delete_delete(p) ==
  /\ proc[p].pc = "del_delete"
  /\ proc[p].op = "delete"
  /\ kv' = kvDelete(CookieKey(proc[p].id))
  /\ Return(p, "delete", proc[p].id, TRUE)
  /\ UNCHANGED <<now, nextId>>

\* incrementFailCount with the threshold itself still valid (<= for <)
FailUpdates_Inclusive(cookie) ==
  LET newFailCount == cookie.failCount + 1
      isValid == newFailCount <= MAX_FAIL_NUM
  IN [failCount |-> newFailCount, isValid |-> isValid]

\* incrementFailCount that writes the failCount it read (no + 1)
FailUpdates_NoIncrement(cookie) ==
  LET newFailCount == cookie.failCount
      isValid == newFailCount < MAX_FAIL_NUM
  IN [failCount |-> newFailCount, isValid |-> isValid]

\* { failCount: newFailCount, isValid } of incrementFailCount
FailUpdates(cookie) ==
  LET newFailCount == cookie.failCount + 1
      isValid == newFailCount < MAX_FAIL_NUM
  IN [failCount |-> newFailCount, isValid |-> isValid]

\* incrementFailCount, up to its call of update
CookieDB_incrementFailCount(p, id) ==
  /\ Ready(p)
  /\ LET cookie == CookieDB_get(id) IN
     IF cookie = Null
       THEN ReturnVoid(p, "incrementFailCount", id)
       ELSE /\ cookie.failCount < MaxFailCount
            /\ proc' = [proc EXCEPT ![p] =
                 [pc |-> "inc_update", op |-> "incrementFailCount", id |-> id,
                  updates |-> FailUpdates(cookie)]]
  /\ UNCHANGED <<kv, now, nextId>>

\* await this.update(id, { failCount: newFailCount, isValid }), up to update's kvSet
CookieDB_incrementFailCount_update(p) ==
  /\ proc[p].pc = "inc_update"
  /\ proc[p].op = "incrementFailCount"
  /\ CookieDB_update_get(p, "incrementFailCount", proc[p].id, proc[p].updates)

\* { failCount: 0, isValid: true } of resetFailCount
ResetUpdates == [failCount |-> 0, isValid |-> TRUE]

CookieDB_resetFailCount(p, id) ==
  /\ Ready(p)
  /\ CookieDB_update_get(p, "resetFailCount", id, ResetUpdates)

\* (await this.getAll()).filter(c => c.isValid)
CookieDB_getValidCookies == {SelectSeq(all, LAMBDA c : c.isValid) : all \in CookieDB_getAll}

-----------------------------------------------------------------------------
(* CookieDB over a backend whose selects and upserts may fail: error tells *)
(* whether the round-trip of the step reports one                          *)

\* get, as a call of its own
CookieDB_get_err(p, id, error) ==
  /\ Ready(p)
  /\ Return(p, "get", id, kvGetResult(CookieKey(id), error))
  /\ UNCHANGED <<kv, now, nextId>>

CookieDB_add_err(p, cookie, error) ==
  /\ Ready(p)
  /\ LET newCookie == NewCookie(cookie)
     IN /\ kv' = kvSetResult(CookieKey(newCookie.id), newCookie, error)
        /\ Return(p, "add", newCookie.id, newCookie)
  /\ nextId' = nextId + 1
  /\ UNCHANGED now

\* update, up to its kvSet
CookieDB_update_err(p, id, updates, error) ==
  /\ Ready(p)
  /\ LET existing == kvGetResult(CookieKey(id), error) IN
     IF existing = Null
       THEN Return(p, "update", id, FALSE)
       ELSE proc' = [proc EXCEPT ![p] =
              [pc |-> "upd_set", op |-> "update", id |-> id, updates |-> updates,
               existing |-> existing]]
  /\ UNCHANGED <<kv, now, nextId>>

\* update, from the merge to its return
CookieDB_update_set_err(p, error) ==
  /\ proc[p].pc = "upd_set"
  /\ proc[p].op = "update"
  /\ kv' = kvSetResult(CookieKey(proc[p].id),
                       CookieUpdated(proc[p].existing, proc[p].updates), error)
  /\ Return(p, "update", proc[p].id, TRUE)
  /\ UNCHANGED <<now, nextId>>

\* delete, up to its kvDelete
CookieDB_delete_err(p, id, error) ==
  /\ Ready(p)
  /\ IF CookieDeleteRefused(kvGetResult(CookieKey(id), error))
       THEN Return(p, "delete", id, FALSE)
       ELSE proc' = [proc EXCEPT ![p] = [pc |-> "del_delete", op |-> "delete", id |-> id]]
  /\ UNCHANGED <<kv, now, nextId>>

-----------------------------------------------------------------------------
(* ApiKeyDB *)

ApiKeyPREFIX == <<"apikeys">>

ApiKeyKey(id) == ApiKeyPREFIX \o <<id>>

\* the results getAll may return, one for each order of the scan
ApiKeyDB_getAll == {Sort(Values(list), "createdAt", FALSE) : list \in kvList(ApiKeyPREFIX)}

ApiKeyDB_get(id) == kvGet(ApiKeyKey(id))

\* find that returns the last match, not the first
RECURSIVE Find_Last(_, _)
Find_Last(all, key) ==
  IF all = <<>> THEN Null
  ELSE IF all[Len(all)].key = key THEN all[Len(all)]
  ELSE Find_Last(SubSeq(all, 1, Len(all) - 1), key)

\* all.find(k => k.key === key) || null
RECURSIVE Find(_, _)
Find(all, key) ==
  IF all = <<>> THEN Null
  ELSE IF Head(all).key = key THEN Head(all)
  ELSE Find(Tail(all), key)

\* the results getByKey may return
ApiKeyDB_getByKey(key) == {Find(all, key) : all \in ApiKeyDB_getAll}

\* newKey of add
NewKey(apiKey) ==
  Spread(apiKey, [id |-> randomUUID, createdAt |-> now, requestCount |-> 0])

ApiKeyDB_add(p, apiKey) ==
  /\ Ready(p)
  /\ LET newKey == NewKey(apiKey)
     IN /\ kv' = kvSet(ApiKeyKey(newKey.id), newKey)
        /\ Return(p, "add", newKey.id, newKey)
  /\ nextId' = nextId + 1
  /\ UNCHANGED now

\* update returns to its caller, and incrementRequestCount, which awaits it,
\* returns nothing to its own
ApiKeyUpdateReturn(p, op, id, ret) ==
  IF op = "update" THEN Return(p, op, id, ret) ELSE ReturnVoid(p, op, id)

\* update, up to its kvSet: existing = await this.get(id); if (!existing) return false
ApiKeyDB_update_get(p, op, id, updates) ==
  LET existing == ApiKeyDB_get(id) IN
  /\ IF existing = Null
       THEN ApiKeyUpdateReturn(p, op, id, FALSE)
       ELSE proc' = [proc EXCEPT ![p] =
              [pc |-> "key_upd_set", op |-> op, id |-> id, updates |-> updates,
               existing |-> existing]]
  /\ UNCHANGED <<kv, now, nextId>>

\* update, from the merge to its return: { ...existing, ...updates }
ApiKeyDB_update_set(p) ==
  /\ proc[p].pc = "key_upd_set"
  /\ proc[p].op \in {"update", "incrementRequestCount"}
  /\ kv' = kvSet(ApiKeyKey(proc[p].id), Spread(proc[p].existing, proc[p].updates))
  /\ ApiKeyUpdateReturn(p, proc[p].op, proc[p].id, TRUE)
  /\ UNCHANGED <<now, nextId>>

ApiKeyDB_update(p, id, updates) ==
  /\ Ready(p)
  /\ ApiKeyDB_update_get(p, "update", id, updates)

\* if (!existing || existing.isDefault) return false
ApiKeyDeleteRefused(existing) == existing = Null \/ existing.isDefault

\* delete, up to its kvDelete
ApiKeyDB_delete(p, id) ==
  /\ Ready(p)
  /\ IF ApiKeyDeleteRefused(ApiKeyDB_get(id))
       THEN Return(p, "delete", id, FALSE)
       ELSE proc' = [proc EXCEPT ![p] = [pc |-> "key_del_delete", op |-> "delete", id |-> id]]
  /\ UNCHANGED <<kv, now, nextId>>

\* await kvDelete(...); return true
ApiKeyDB_delete_delete(p) ==
  /\ proc[p].pc = "key_del_delete"
  /\ proc[p].op = "delete"
  /\ kv' = kvDelete(ApiKeyKey(proc[p].id))
  /\ Return(p, "delete", proc[p].id, TRUE)
  /\ UNCHANGED <<now, nextId>>

\* { requestCount: apiKey.requestCount + 1 } of incrementRequestCount
CountUpdates(apiKey) == [requestCount |-> apiKey.requestCount + 1]

\* incrementRequestCount, up to its call of update
ApiKeyDB_incrementRequestCount(p, key) ==
  /\ Ready(p)
  /\ \E apiKey \in ApiKeyDB_getByKey(key) :
       IF apiKey = Null
         THEN ReturnVoid(p, "incrementRequestCount", key)
         ELSE /\ apiKey.requestCount < MaxRequestCount
              /\ proc' = [proc EXCEPT ![p] =
                   [pc |-> "key_inc_update", op |-> "incrementRequestCount",
                    id |-> apiKey.id, updates |-> CountUpdates(apiKey)]]
  /\ UNCHANGED <<kv, now, nextId>>

\* await this.update(apiKey.id, { requestCount: ... }), up to update's kvSet
ApiKeyDB_incrementRequestCount_update(p) ==
  /\ proc[p].pc = "key_inc_update"
  /\ proc[p].op = "incrementRequestCount"
  /\ ApiKeyDB_update_get(p, "incrementRequestCount", proc[p].id, proc[p].updates)

\* (await this.getAll()).filter(k => k.isEnabled)
ApiKeyDB_getEnabledKeys == {SelectSeq(all, LAMBDA k : k.isEnabled) : all \in ApiKeyDB_getAll}

-----------------------------------------------------------------------------
(* RequestLogDB *)

LogPREFIX == <<"logs">>

LogKey(log) == LogPREFIX \o <<log.timestamp, log.id>>

\* add, up to its call of cleanup
RequestLogDB_add(p, log) ==
  /\ Ready(p)
  /\ LET newLog == Spread(log, [id |-> randomUUID])
     IN /\ kv' = kvSet(LogKey(newLog), newLog)
        /\ proc' = [proc EXCEPT ![p] = [pc |-> "log_cleanup", op |-> "add", id |-> newLog.id]]
  /\ nextId' = nextId + 1
  /\ UNCHANGED now

\* cleanup keeping one log less than it should (slice one place too early)
LogsToDelete_KeepsOneLess(logs) ==
  SubSeq(Sort(logs, "timestamp", TRUE), MAX_REQUEST_RECORD_NUM, Len(logs))

\* cleanup sorting oldest first (a - b for b - a)
LogsToDelete_Ascending(logs) ==
  SubSeq(Sort(logs, "timestamp", FALSE), MAX_REQUEST_RECORD_NUM + 1, Len(logs))

\* logs.sort((a, b) => b.timestamp - a.timestamp).slice(Config.MAX_REQUEST_RECORD_NUM)
LogsToDelete(logs) ==
  SubSeq(Sort(logs, "timestamp", TRUE), MAX_REQUEST_RECORD_NUM + 1, Len(logs))

\* cleanup that lets one log more than the cap stay
WithinCap_OneMore(logs) == Len(logs) <= MAX_REQUEST_RECORD_NUM + 1

\* if (logs.length <= Config.MAX_REQUEST_RECORD_NUM) return
WithinCap(logs) == Len(logs) <= MAX_REQUEST_RECORD_NUM

\* cleanup, from its scan to its first kvDelete
RequestLogDB_cleanup(p) ==
  /\ proc[p].pc = "log_cleanup"
  /\ \E list \in kvList(LogPREFIX) :
       LET logs == Values(list) IN
       IF WithinCap(logs)
         THEN ReturnVoid(p, "add", proc[p].id)
         ELSE proc' = [proc EXCEPT ![p] =
                [pc |-> "log_delete", op |-> "add", id |-> proc[p].id,
                 toDelete |-> LogsToDelete(logs)]]
  /\ UNCHANGED <<kv, now, nextId>>

\* for (const log of toDelete) await kvDelete(...): one turn of the loop
RequestLogDB_cleanup_delete(p) ==
  /\ proc[p].pc = "log_delete"
  /\ IF proc[p].toDelete = <<>>
       THEN /\ ReturnVoid(p, "add", proc[p].id)
            /\ UNCHANGED kv
       ELSE /\ kv' = kvDelete(LogKey(Head(proc[p].toDelete)))
            /\ IF Len(proc[p].toDelete) = 1
                 THEN ReturnVoid(p, "add", proc[p].id)
                 ELSE proc' = [proc EXCEPT ![p].toDelete = Tail(@)]
  /\ UNCHANGED <<now, nextId>>

\* the results getRecent(limit) may return
RequestLogDB_getRecent(limit) ==
  {LET sorted == Sort(Values(list), "timestamp", TRUE)
   IN SubSeq(sorted, 1, IF limit < Len(sorted) THEN limit ELSE Len(sorted)) :
     list \in kvList(LogPREFIX)}

\* (await kvList(this.PREFIX)).length
RequestLogDB_count == Cardinality(kvListKeys(LogPREFIX))

-----------------------------------------------------------------------------
(* SystemSettingsDB and ModelMappingDB *)

(* Config (./config.ts): getDefaultSystemSettings() and DEFAULT_MODELS_MAPS; *)
(* a ModelMapping[] value is held as the record of its items               *)
DefaultSystemSettings == [a |-> 0, b |-> 0]
DEFAULT_MODELS_MAPS == [items |-> <<"m0">>]

SettingsKEY == <<"settings", "system">>
ModelsKEY == <<"settings", "models">>

\* x || y over the values kvGet returns: null is the only falsy one of them
OrElse(x, y) == IF x = Null THEN y ELSE x

\* SystemSettingsDB.get that stores the default it falls back to
SystemSettingsDB_get_WritesBack(p, error) ==
  /\ Ready(p)
  /\ LET settings == OrElse(kvGetResult(SettingsKEY, error), DefaultSystemSettings)
     IN /\ Return(p, "SystemSettingsDB.get", "", settings)
        /\ kv' = kvSet(SettingsKEY, settings)
  /\ UNCHANGED <<now, nextId>>

\* (await kvGet(this.KEY)) || Config.getDefaultSystemSettings()
SystemSettingsDB_get(p, error) ==
  /\ Ready(p)
  /\ Return(p, "SystemSettingsDB.get", "",
            OrElse(kvGetResult(SettingsKEY, error), DefaultSystemSettings))
  /\ UNCHANGED <<kv, now, nextId>>

\* update, up to its kvSet: current = await this.get(); updated = {...current, ...settings}
SystemSettingsDB_update(p, settings, error) ==
  /\ Ready(p)
  /\ LET current == OrElse(kvGetResult(SettingsKEY, error), DefaultSystemSettings)
         updated == Spread(current, settings)
     IN proc' = [proc EXCEPT ![p] =
          [pc |-> "settings_set", op |-> "SystemSettingsDB.update", id |-> "",
           updated |-> updated]]
  /\ UNCHANGED <<kv, now, nextId>>

\* await kvSet(this.KEY, updated); return updated
SystemSettingsDB_update_set(p) ==
  /\ proc[p].pc = "settings_set"
  /\ kv' = kvSet(SettingsKEY, proc[p].updated)
  /\ Return(p, "SystemSettingsDB.update", "", proc[p].updated)
  /\ UNCHANGED <<now, nextId>>

\* (await kvGet(this.KEY)) || Config.DEFAULT_MODELS_MAPS
ModelMappingDB_get(p, error) ==
  /\ Ready(p)
  /\ Return(p, "ModelMappingDB.get", "",
            OrElse(kvGetResult(ModelsKEY, error), DEFAULT_MODELS_MAPS))
  /\ UNCHANGED <<kv, now, nextId>>

\* await kvSet(this.KEY, mappings)
ModelMappingDB_update(p, mappings) ==
  /\ Ready(p)
  /\ kv' = kvSet(ModelsKEY, mappings)
  /\ ReturnVoid(p, "ModelMappingDB.update", "")
  /\ UNCHANGED <<now, nextId>>

-----------------------------------------------------------------------------
(* initializeDatabase *)

\* the cookie and the key initializeDatabase adds for a default value
DefaultCookie(value) ==
  [value |-> value, isValid |-> TRUE, failCount |-> 0, isDefault |-> TRUE]
DefaultApiKey(key) == [key |-> key, isEnabled |-> TRUE, isDefault |-> TRUE]

\* initializeDatabase seeding cookies whenever none of the stored ones is a
\* default (a comparison of content, not of the length)
SeedsCookies_ByContent(cookies) ==
  /\ \A i \in 1..Len(cookies) : ~cookies[i].isDefault
  /\ Len(DEFAULT_CTO_COOKIES) > 0

\* cookies.length === 0 && Config.DEFAULT_CTO_COOKIES.length > 0
SeedsCookies(cookies) == Len(cookies) = 0 /\ Len(DEFAULT_CTO_COOKIES) > 0

\* keys.length === 0, and the loop has a turn to make
SeedsKeys(keys) == Len(keys) = 0 /\ Len(DEFAULT_CHAT_APIKEYS) > 0

\* initializeDatabase, up to its first CookieDB.add or to ApiKeyDB.getAll
initializeDatabase(p) ==
  /\ Ready(p)
  /\ \E cookies \in CookieDB_getAll :
       proc' = [proc EXCEPT ![p] =
         IF SeedsCookies(cookies)
           THEN [pc |-> "init_cookie", op |-> "initializeDatabase", i |-> 1]
           ELSE [pc |-> "init_keys", op |-> "initializeDatabase"]]
  /\ UNCHANGED <<kv, now, nextId>>

\* one turn of for (const value of Config.DEFAULT_CTO_COOKIES) await CookieDB.add(...)
initializeDatabase_cookie(p) ==
  /\ proc[p].pc = "init_cookie"
  /\ LET newCookie == NewCookie(DefaultCookie(DEFAULT_CTO_COOKIES[proc[p].i]))
     IN kv' = kvSet(CookieKey(newCookie.id), newCookie)
  /\ nextId' = nextId + 1
  /\ proc' = [proc EXCEPT ![p] =
       IF proc[p].i < Len(DEFAULT_CTO_COOKIES)
         THEN [pc |-> "init_cookie", op |-> "initializeDatabase", i |-> proc[p].i + 1]
         ELSE [pc |-> "init_keys", op |-> "initializeDatabase"]]
  /\ UNCHANGED now

\* keys = await ApiKeyDB.getAll(), up to the first ApiKeyDB.add or to the return
initializeDatabase_keys(p) ==
  /\ proc[p].pc = "init_keys"
  /\ \E keys \in ApiKeyDB_getAll :
       IF SeedsKeys(keys)
         THEN proc' = [proc EXCEPT ![p] =
                [pc |-> "init_key", op |-> "initializeDatabase", i |-> 1]]
         ELSE ReturnVoid(p, "initializeDatabase", "")
  /\ UNCHANGED <<kv, now, nextId>>

\* one turn of for (const key of Config.DEFAULT_CHAT_APIKEYS) await ApiKeyDB.add(...)
initializeDatabase_key(p) ==
  /\ proc[p].pc = "init_key"
  /\ LET newKey == NewKey(DefaultApiKey(DEFAULT_CHAT_APIKEYS[proc[p].i]))
     IN kv' = kvSet(ApiKeyKey(newKey.id), newKey)
  /\ nextId' = nextId + 1
  /\ IF proc[p].i < Len(DEFAULT_CHAT_APIKEYS)
       THEN proc' = [proc EXCEPT ![p].i = @ + 1]
       ELSE ReturnVoid(p, "initializeDatabase", "")
  /\ UNCHANGED now

-----------------------------------------------------------------------------
Init ==
  /\ kv = <<>>
  /\ now = 0
  /\ nextId = 0
  /\ proc = [p \in Procs |-> Idle]
  /\ ghost = [incs |-> <<>>, call |-> [p \in Procs |-> Null], appended |-> {},
              before |-> Null]

\* the ids a caller may pass: the ids handed out to the callers, stored or not
Ids(max) == {"id" \o ToString(i) : i \in 1..max}

\* the cookie the id is stored under, and whether there is one
Stored(id) == makeKey(CookieKey(id)) \in DOMAIN kv
Cookie(id) == kv[makeKey(CookieKey(id))]

\* the step is p's return from the kvSet of a call of op
Writes(p, op) ==
  /\ proc[p].pc = "upd_set"
  /\ proc[p].op = op
  /\ proc'[p].pc = "done"

-----------------------------------------------------------------------------
(* The health state machine, callers racing: add, update, incrementFailCount *)
(* and resetFailCount of CookieDB                                          *)

\* what a new cookie is created with (initializeDatabase, lines 297 to 302)
FreshCookie(isDefault) ==
  [value |-> "v", isValid |-> TRUE, failCount |-> 0, isDefault |-> isDefault]

\* the Partial<Cookie> values callers of update supply in this specification
HealthUpdates ==
  {[isValid |-> b] : b \in BOOLEAN} \cup {[failCount |-> n] : n \in 0..MaxFailCount}

CookieNext ==
  \E p \in Procs :
    \/ \E d \in BOOLEAN :
         nextId < MaxIds /\ CookieDB_add(p, FreshCookie(d)) /\ UNCHANGED ghost
    \/ \E id \in Ids(MaxIds), u \in HealthUpdates :
         CookieDB_update(p, id, u) /\ UNCHANGED ghost
    \/ \E id \in Ids(MaxIds) : CookieDB_incrementFailCount(p, id) /\ UNCHANGED ghost
    \/ CookieDB_incrementFailCount_update(p) /\ UNCHANGED ghost
    \/ \E id \in Ids(MaxIds) : CookieDB_resetFailCount(p, id) /\ UNCHANGED ghost
    \/ CookieDB_update_set(p) /\ UNCHANGED ghost

SpecCookie == Init /\ [][CookieNext]_vars

\* isValid == (failCount < MAX_FAIL_NUM)
HealthInv(cookie) == cookie.isValid = (cookie.failCount < MAX_FAIL_NUM)

\* C1, as claimed: every stored cookie satisfies
\* isValid == (failCount < MAX_FAIL_NUM) in every reachable state, after any
\* interleaving of add, update, incrementFailCount and resetFailCount.
C1_HealthInvariant == \A id \in Ids(MaxIds) : Stored(id) => HealthInv(Cookie(id))

\* C1, amended: a cookie is added with failCount 0 and isValid true; every
\* write of incrementFailCount and of resetFailCount leaves the cookie with
\* isValid == (failCount < MAX_FAIL_NUM), whatever it held before and however
\* the calls interleave; and a step after which a cookie is without it, when
\* it was with it before, is the write of a direct update, which stores the
\* isValid or the failCount its caller supplies and leaves the other as read.
C1_HealthWrites ==
  [][\A id \in Ids(MaxIds) :
       /\ \A p \in Procs :
            ((Writes(p, "incrementFailCount") \/ Writes(p, "resetFailCount")) /\ proc[p].id = id)
              => HealthInv(Cookie(id))'
       /\ (Stored(id)' /\ ~HealthInv(Cookie(id))' /\ (Stored(id) => HealthInv(Cookie(id))))
            => \E p \in Procs :
                 Writes(p, "update") /\ proc[p].id = id]_vars

\* an incrementFailCount has taken a cookie across the threshold
C1_Witness ==
  \E p \in Procs :
    /\ proc[p].pc = "done" /\ proc[p].op = "incrementFailCount"
    /\ Stored(proc[p].id)
    /\ Cookie(proc[p].id).failCount = MAX_FAIL_NUM
    /\ ~Cookie(proc[p].id).isValid

-----------------------------------------------------------------------------
(* The health state machine without direct updates: callers racing through *)
(* incrementFailCount and resetFailCount only                              *)

HealthNext ==
  \E p \in Procs :
    \/ \E d \in BOOLEAN :
         nextId < MaxIds /\ CookieDB_add(p, FreshCookie(d)) /\ UNCHANGED ghost
    \/ \E id \in Ids(MaxIds) : CookieDB_incrementFailCount(p, id) /\ UNCHANGED ghost
    \/ CookieDB_incrementFailCount_update(p) /\ UNCHANGED ghost
    \/ \E id \in Ids(MaxIds) : CookieDB_resetFailCount(p, id) /\ UNCHANGED ghost
    \/ CookieDB_update_set(p) /\ UNCHANGED ghost

SpecHealth == Init /\ [][HealthNext]_vars

\* C7: once a stored cookie has isValid = false, no step of any interleaving
\* of incrementFailCount calls makes it isValid = true again: a step that
\* takes a cookie from invalid to valid is the write of a resetFailCount.
C7_OneWayUnlessReset ==
  [][\A id \in Ids(MaxIds) :
       (Stored(id) /\ ~Cookie(id).isValid /\ Stored(id)' /\ Cookie(id)'.isValid)
         => \E p \in Procs : Writes(p, "resetFailCount") /\ proc[p].id = id]_vars

-----------------------------------------------------------------------------
(* The health state machine, one caller: every call returns before the     *)
(* next starts.  ghost.incs[id] counts the incrementFailCount calls on id  *)
(* that have returned since add created it or a resetFailCount returned.   *)

\* f with x mapped to v
With(f, x, v) == [y \in DOMAIN f \cup {x} |-> IF y = x THEN v ELSE f[y]]

Counted(id, n) == ghost' = [ghost EXCEPT !.incs = With(ghost.incs, id, n)]

HealthSeqNext ==
  \/ \E d \in BOOLEAN :
       /\ nextId < MaxSeqIds
       /\ CookieDB_add(1, FreshCookie(d))
       /\ Counted(randomUUID, 0)
  \/ \E id \in Ids(MaxSeqIds) : CookieDB_incrementFailCount(1, id) /\ UNCHANGED ghost
  \/ CookieDB_incrementFailCount_update(1) /\ UNCHANGED ghost
  \/ \E id \in Ids(MaxSeqIds) : CookieDB_resetFailCount(1, id) /\ UNCHANGED ghost
  \/ /\ CookieDB_update_set(1)
     /\ IF proc[1].op = "incrementFailCount"
          THEN Counted(proc[1].id, ghost.incs[proc[1].id] + 1)
          ELSE Counted(proc[1].id, 0)
  \/ Tick /\ UNCHANGED ghost

SpecHealthSeq == Init /\ [][HealthSeqNext]_vars

\* C6: a cookie created with failCount 0 and isValid true has, after k
\* sequential incrementFailCount calls, failCount = k and
\* isValid = (k < MAX_FAIL_NUM); a resetFailCount then leaves failCount = 0
\* and isValid = true.
C6_HealthSequence ==
  Ready(1) =>
    /\ \A id \in Ids(MaxSeqIds) :
         Stored(id) =>
           /\ Cookie(id).failCount = ghost.incs[id]
           /\ Cookie(id).isValid = (ghost.incs[id] < MAX_FAIL_NUM)
    /\ (proc[1].pc = "done" /\ proc[1].op = "resetFailCount" /\ Stored(proc[1].id))
         => Cookie(proc[1].id).failCount = 0 /\ Cookie(proc[1].id).isValid

\* the third incrementFailCount on a cookie has returned, and so has a
\* resetFailCount on a cookie that was past the threshold
C6_Witness ==
  /\ proc[1].pc = "done" /\ proc[1].op = "resetFailCount"
  /\ \E id \in Ids(MaxSeqIds) :
       Stored(id) /\ ghost.incs[id] = MAX_FAIL_NUM /\ ~Cookie(id).isValid
  /\ Stored(proc[1].id) /\ Cookie(proc[1].id).updatedAt > Cookie(proc[1].id).createdAt

-----------------------------------------------------------------------------
(* The usage counter: callers racing through incrementRequestCount *)

\* the key the id is stored under, and whether there is one
KeyStored(id) == makeKey(ApiKeyKey(id)) \in DOMAIN kv
ApiKey(id) == kv[makeKey(ApiKeyKey(id))]

\* what callers of ApiKeyDB.add supply (initializeDatabase, lines 310 to 314)
NewApiKey(key, isDefault) == [key |-> key, isEnabled |-> TRUE, isDefault |-> isDefault]

\* the key values callers use
KeyValues == {"sk-a", "sk-b"}

CountNext ==
  \E p \in Procs :
    \/ \E k \in KeyValues, d \in BOOLEAN :
         nextId < MaxIds /\ ApiKeyDB_add(p, NewApiKey(k, d)) /\ UNCHANGED ghost
    \/ \E k \in KeyValues : ApiKeyDB_incrementRequestCount(p, k) /\ UNCHANGED ghost
    \/ ApiKeyDB_incrementRequestCount_update(p) /\ UNCHANGED ghost
    \/ ApiKeyDB_update_set(p) /\ UNCHANGED ghost

SpecCount == Init /\ [][CountNext]_vars

\* C3: requestCount of a stored API key never decreases: no step of any
\* interleaving of incrementRequestCount calls writes a requestCount smaller
\* than the one stored.
C3_CountMonotonic ==
  [][\A id \in Ids(MaxIds) :
       (KeyStored(id) /\ KeyStored(id)')
         => ApiKey(id)'.requestCount >= ApiKey(id).requestCount]_vars

-----------------------------------------------------------------------------
(* The repositories, callers racing: add, update and delete of CookieDB and *)
(* of ApiKeyDB                                                             *)

\* the Partial<Cookie> and Partial<ApiKey> values callers of update supply here
EntityCookieUpdates == {[isDefault |-> b] : b \in BOOLEAN} \cup {[isValid |-> FALSE]}
EntityKeyUpdates == {[isDefault |-> b] : b \in BOOLEAN} \cup {[isEnabled |-> FALSE]}

EntityNext ==
  \E p \in Procs :
    \/ \E d \in BOOLEAN :
         nextId < MaxIds /\ CookieDB_add(p, FreshCookie(d)) /\ UNCHANGED ghost
    \/ \E id \in Ids(MaxIds), u \in EntityCookieUpdates :
         CookieDB_update(p, id, u) /\ UNCHANGED ghost
    \/ CookieDB_update_set(p) /\ UNCHANGED ghost
    \/ \E id \in Ids(MaxIds) : CookieDB_delete(p, id) /\ UNCHANGED ghost
    \/ CookieDB_delete_delete(p) /\ UNCHANGED ghost
    \/ \E d \in BOOLEAN :
         nextId < MaxIds /\ ApiKeyDB_add(p, NewApiKey("sk-a", d)) /\ UNCHANGED ghost
    \/ \E id \in Ids(MaxIds), u \in EntityKeyUpdates :
         ApiKeyDB_update(p, id, u) /\ UNCHANGED ghost
    \/ ApiKeyDB_update_set(p) /\ UNCHANGED ghost
    \/ \E id \in Ids(MaxIds) : ApiKeyDB_delete(p, id) /\ UNCHANGED ghost
    \/ ApiKeyDB_delete_delete(p) /\ UNCHANGED ghost

SpecEntity == Init /\ [][EntityNext]_vars

\* C2: a record of CookieDB or ApiKeyDB whose isDefault is true is never
\* removed from the store, under any interleaving of delete with concurrent
\* update calls on the same id: no step takes away a row whose value has
\* isDefault true.
C2_DefaultNeverRemoved ==
  [][\A k \in DOMAIN kv : kv[k].isDefault => k \in DOMAIN kv']_vars

\* C8: after delete(id) has returned true, get(id) returns absent, also when
\* an update(id, ...) was in progress while the delete ran: as long as the
\* caller holds the true it got, no row is stored under the id.
C8_DeletedStaysAbsent ==
  \A p \in Procs :
    (proc[p].pc = "done" /\ proc[p].op = "delete" /\ proc[p].ret)
      => CookieDB_get(proc[p].id) = Null /\ ApiKeyDB_get(proc[p].id) = Null

-----------------------------------------------------------------------------
(* Two concurrent updates of one stored record.  Each caller calls update  *)
(* once; ghost.call[p] keeps what p's update read and what it was given.   *)

\* the records a store may hold under id1 when the updates start
RaceCookies ==
  [id : {"id1"}, value : {"v"}, isValid : BOOLEAN, failCount : 0..MaxFailCount,
   isDefault : BOOLEAN, createdAt : {0}, updatedAt : {0}]
RaceKeys ==
  [id : {"id1"}, key : {"sk-a"}, isEnabled : BOOLEAN, isDefault : BOOLEAN,
   createdAt : {0}, requestCount : 0..MaxRequestCount]

\* the one-field changes the two callers make
RaceCookieUpdates ==
  {[isValid |-> b] : b \in BOOLEAN} \cup {[failCount |-> n] : n \in 0..MaxFailCount}
RaceKeyUpdates ==
  {[isEnabled |-> b] : b \in BOOLEAN} \cup {[requestCount |-> n] : n \in 0..MaxRequestCount}

RaceInit ==
  /\ \/ \E c \in RaceCookies : kv = [k \in {makeKey(CookieKey("id1"))} |-> c]
     \/ \E a \in RaceKeys : kv = [k \in {makeKey(ApiKeyKey("id1"))} |-> a]
  /\ now = 0
  /\ nextId = 1
  /\ proc = [p \in Procs |-> Idle]
  /\ ghost = [incs |-> <<>>, call |-> [p \in Procs |-> Null], appended |-> {},
              before |-> Null]

Called(p) ==
  ghost' = [ghost EXCEPT !.call[p] =
              [updates |-> proc[p].updates, existing |-> proc[p].existing]]

\* the two callers
Racers == {1, 2}

RaceNext ==
  \/ \E p \in Racers, u \in RaceCookieUpdates :
       proc[p].pc = "idle" /\ Stored("id1") /\ CookieDB_update(p, "id1", u) /\ UNCHANGED ghost
  \/ \E p \in Racers : CookieDB_update_set(p) /\ Called(p)
  \/ \E p \in Racers, u \in RaceKeyUpdates :
       proc[p].pc = "idle" /\ KeyStored("id1") /\ ApiKeyDB_update(p, "id1", u) /\ UNCHANGED ghost
  \/ \E p \in Racers : ApiKeyDB_update_set(p) /\ Called(p)
  \/ Tick /\ UNCHANGED ghost

SpecRace == RaceInit /\ [][RaceNext]_vars

\* the record stored under id1
RaceRecord == IF Stored("id1") THEN Cookie("id1") ELSE ApiKey("id1")

\* p's update has returned; the field it was to change, and the value
Updated(p) == proc[p].pc = "done" /\ proc[p].op = "update"
FieldOf(p) == CHOOSE f \in DOMAIN ghost.call[p].updates : TRUE
ValueOf(p) == ghost.call[p].updates[FieldOf(p)]
BaseOf(p) == ghost.call[p].existing

\* C9: two concurrent updates of one record, update(id, {a: ...}) and
\* update(id, {b: ...}), both return true; the change of the one that wrote
\* last is stored; when both read the same base record, the field of one of
\* them is stored with its base value (its change is lost, if it was one);
\* when one read what the other had written, both changes are stored.
C9_LostUpdate ==
  \A p, q \in Racers :
    (p # q /\ Updated(p) /\ Updated(q) /\ FieldOf(p) # FieldOf(q)) =>
      /\ proc[p].ret /\ proc[q].ret
      /\ RaceRecord[FieldOf(p)] = ValueOf(p) \/ RaceRecord[FieldOf(q)] = ValueOf(q)
      /\ BaseOf(p) = BaseOf(q) =>
           \/ RaceRecord[FieldOf(p)] = BaseOf(p)[FieldOf(p)]
           \/ RaceRecord[FieldOf(q)] = BaseOf(q)[FieldOf(q)]
      /\ BaseOf(p) # BaseOf(q) =>
           RaceRecord[FieldOf(p)] = ValueOf(p) /\ RaceRecord[FieldOf(q)] = ValueOf(q)

\* the lost update: both calls returned true, both read the same base, both
\* were to change their field, and the stored record has only q's change
C9_Witness ==
  \E p, q \in Racers :
    /\ p # q /\ Updated(p) /\ Updated(q) /\ FieldOf(p) # FieldOf(q)
    /\ proc[p].ret /\ proc[q].ret
    /\ BaseOf(p) = BaseOf(q)
    /\ ValueOf(p) # BaseOf(p)[FieldOf(p)] /\ ValueOf(q) # BaseOf(q)[FieldOf(q)]
    /\ RaceRecord[FieldOf(p)] = BaseOf(p)[FieldOf(p)]
    /\ RaceRecord[FieldOf(q)] = ValueOf(q)

-----------------------------------------------------------------------------
(* The log store *)

\* the logs callers append
LogInputs == [timestamp : 1..MaxTimestamp, path : {"/v1/chat"}]

\* the logs stored, and their timestamps
StoredLogs == {kv[k] : k \in kvListKeys(LogPREFIX)}
StoredTimestamps == {l.timestamp : l \in StoredLogs}

\* one caller, appending logs with pairwise distinct timestamps;
\* ghost.appended holds the timestamps appended so far
LogSeqNext ==
  \/ \E log \in LogInputs :
       /\ nextId < MaxLogs
       /\ log.timestamp \notin ghost.appended
       /\ RequestLogDB_add(1, log)
       /\ ghost' = [ghost EXCEPT !.appended = @ \cup {log.timestamp}]
  \/ RequestLogDB_cleanup(1) /\ UNCHANGED ghost
  \/ RequestLogDB_cleanup_delete(1) /\ UNCHANGED ghost

SpecLogSeq == Init /\ [][LogSeqNext]_vars

\* the n largest of a set of numbers
Largest(S, n) == {t \in S : Cardinality({u \in S : u > t}) < n}

Min(a, b) == IF a < b THEN a ELSE b

\* C4: after sequential RequestLogDB.add calls with pairwise distinct
\* timestamps, in any order, the stored logs are exactly the
\* min(MAX_REQUEST_RECORD_NUM, number appended) entries with the largest
\* timestamps; no older entry is stored.
C4_RetentionCap ==
  Ready(1) =>
    /\ StoredTimestamps = Largest(ghost.appended, MAX_REQUEST_RECORD_NUM)
    /\ Cardinality(StoredLogs) = Min(MAX_REQUEST_RECORD_NUM, Cardinality(ghost.appended))

\* more logs than the cap have been appended, the last of them older than
\* those kept: its own add evicted it
C4_Witness ==
  /\ proc[1].pc = "done" /\ proc[1].op = "add"
  /\ Cardinality(ghost.appended) > MAX_REQUEST_RECORD_NUM + 1
  /\ \A l \in StoredLogs : l.id # proc[1].id

\* callers racing through RequestLogDB.add, timestamps of any kind
LogNext ==
  \E p \in Procs :
    \/ \E log \in LogInputs :
         nextId < MaxLogs /\ RequestLogDB_add(p, log) /\ UNCHANGED ghost
    \/ RequestLogDB_cleanup(p) /\ UNCHANGED ghost
    \/ RequestLogDB_cleanup_delete(p) /\ UNCHANGED ghost

SpecLog == Init /\ [][LogNext]_vars

\* every add that started has finished its cleanup
Quiescent == \A p \in Procs : Ready(p)

\* C5: whenever no RequestLogDB.add is in progress, at most
\* MAX_REQUEST_RECORD_NUM logs are stored, however the adds interleaved.
C5_CapWhenQuiescent == Quiescent => Cardinality(StoredLogs) <= MAX_REQUEST_RECORD_NUM

\* two adds ran their cleanups over a store above the cap, and all have
\* finished: both callers are back from add, and more logs were appended
\* than are kept
C5_Witness ==
  /\ \A p \in Procs : proc[p].pc = "done" /\ proc[p].op = "add"
  /\ nextId = MaxLogs
  /\ Cardinality(StoredLogs) = MAX_REQUEST_RECORD_NUM

\* C19: eviction never removes an entry that belongs among the N retained
\* ones: once at least N = MAX_REQUEST_RECORD_NUM logs have been appended,
\* whenever no add is in progress the store holds exactly N logs, under any
\* interleaving of concurrent adds, logs with equal timestamps and scans
\* that return rows in any order included.
C19_ExactlyCap ==
  (Quiescent /\ nextId >= MAX_REQUEST_RECORD_NUM)
    => Cardinality(StoredLogs) = MAX_REQUEST_RECORD_NUM

-----------------------------------------------------------------------------
(* Start-up, one caller: initializeDatabase run any number of times, with  *)
(* adds and deletes of other records before and between the runs.          *)
(* ghost.before holds the two collections, and the ids handed out, as they *)
(* were when the latest run started.                                       *)

\* the rows of a collection
Rows(prefix) == {kv[k] : k \in kvListKeys(prefix)}

\* the ids start-up and the other calls of this specification may use
BootIds == Ids(MaxSeqIds + Len(DEFAULT_CTO_COOKIES) + Len(DEFAULT_CHAT_APIKEYS))

BootNext ==
  \/ /\ initializeDatabase(1)
     /\ ghost' = [ghost EXCEPT !.before =
          [cookies |-> Rows(CookiePREFIX), keys |-> Rows(ApiKeyPREFIX), nextId |-> nextId]]
  \/ initializeDatabase_cookie(1) /\ UNCHANGED ghost
  \/ initializeDatabase_keys(1) /\ UNCHANGED ghost
  \/ initializeDatabase_key(1) /\ UNCHANGED ghost
  \/ /\ Cardinality(Rows(CookiePREFIX) \cup Rows(ApiKeyPREFIX)) < MaxSeqIds
     /\ nextId < Cardinality(BootIds)
     /\ CookieDB_add(1, FreshCookie(FALSE))
     /\ UNCHANGED ghost
  \/ /\ Cardinality(Rows(CookiePREFIX) \cup Rows(ApiKeyPREFIX)) < MaxSeqIds
     /\ nextId < Cardinality(BootIds)
     /\ ApiKeyDB_add(1, NewApiKey("sk-b", FALSE))
     /\ UNCHANGED ghost
  \/ \E id \in BootIds : CookieDB_delete(1, id) /\ UNCHANGED ghost
  \/ CookieDB_delete_delete(1) /\ UNCHANGED ghost
  \/ \E id \in BootIds : ApiKeyDB_delete(1, id) /\ UNCHANGED ghost
  \/ ApiKeyDB_delete_delete(1) /\ UNCHANGED ghost

SpecBoot == Init /\ [][BootNext]_vars

\* the records a run that started with n ids handed out adds for the defaults
SeededCookies(n) ==
  {[id |-> "id" \o ToString(n + i), value |-> DEFAULT_CTO_COOKIES[i]] :
     i \in 1..Len(DEFAULT_CTO_COOKIES)}
SeededKeys(n) ==
  {[id |-> "id" \o ToString(n + i), key |-> DEFAULT_CHAT_APIKEYS[i]] :
     i \in 1..Len(DEFAULT_CHAT_APIKEYS)}

Booted == proc[1].pc = "done" /\ proc[1].op = "initializeDatabase"

\* C10: initializeDatabase, run sequentially: when the cookie collection was
\* empty it holds afterwards one cookie per default value, each with
\* isDefault = true, isValid = true, failCount = 0, and when it was not
\* empty, defaults among its entries or not, it is as it was; likewise the
\* key collection, with one enabled default key per default key.
C10_BootIdempotent ==
  Booted =>
    /\ IF ghost.before.cookies = {}
         THEN /\ {[id |-> c.id, value |-> c.value] : c \in Rows(CookiePREFIX)}
                   = SeededCookies(ghost.before.nextId)
              /\ \A c \in Rows(CookiePREFIX) :
                   c.isDefault /\ c.isValid /\ c.failCount = 0
         ELSE Rows(CookiePREFIX) = ghost.before.cookies
    /\ IF ghost.before.keys = {}
         THEN /\ {[id |-> a.id, key |-> a.key] : a \in Rows(ApiKeyPREFIX)}
                   = SeededKeys(nextId - Len(DEFAULT_CHAT_APIKEYS))
              /\ \A a \in Rows(ApiKeyPREFIX) :
                   a.isDefault /\ a.isEnabled /\ a.requestCount = 0
         ELSE Rows(ApiKeyPREFIX) = ghost.before.keys

\* a run has returned that found only non-default cookies and left them
\* alone, and found no keys and seeded them
C10_Witness ==
  /\ Booted
  /\ ghost.before.cookies # {}
  /\ \A c \in Rows(CookiePREFIX) : ~c.isDefault
  /\ ghost.before.keys = {}
  /\ \E a \in Rows(ApiKeyPREFIX) : a.isDefault

-----------------------------------------------------------------------------
(* The settings stores, one caller, over a backend whose reads may fail.   *)
(* ghost.before holds the table as it was when the latest call started,    *)
(* what the call was given, and whether its read failed.                   *)

\* the Partial<SystemSettings> values and the ModelMapping[] values callers supply
SettingsPartials ==
  {[a |-> v] : v \in 0..MaxSetting} \cup {[b |-> v] : v \in 0..MaxSetting}
ModelLists == {[items |-> <<>>], [items |-> <<"m1">>]}

\* the call starts: what the properties compare its outcome with
Starts(given, error) ==
  ghost' = [ghost EXCEPT !.before = [kv |-> kv, given |-> given, error |-> error]]

SettingsNext ==
  \/ \E error \in BOOLEAN : SystemSettingsDB_get(1, error) /\ Starts(Null, error)
  \/ \E settings \in SettingsPartials, error \in BOOLEAN :
       SystemSettingsDB_update(1, settings, error) /\ Starts(settings, error)
  \/ SystemSettingsDB_update_set(1) /\ UNCHANGED ghost
  \/ \E error \in BOOLEAN : ModelMappingDB_get(1, error) /\ Starts(Null, error)
  \/ \E mappings \in ModelLists : ModelMappingDB_update(1, mappings) /\ Starts(mappings, FALSE)

SpecSettings == Init /\ [][SettingsNext]_vars

\* the call of op has returned
Returned(p, op) == proc[p].pc = "done" /\ proc[p].op = op

\* the table had a row under the key when the latest call started
HadRow(key) == makeKey(key) \in DOMAIN ghost.before.kv

\* C11: SystemSettingsDB.get and ModelMappingDB.get write nothing: the table
\* is as it was when the call started; and on a store with no settings
\* record (no mappings record) the call returns the static default, and a
\* raw read of the key afterwards still finds no record.
C11_GetNoWrite ==
  /\ Returned(1, "SystemSettingsDB.get") =>
       /\ kv = ghost.before.kv
       /\ ~HadRow(SettingsKEY) =>
            proc[1].ret = DefaultSystemSettings /\ kvGet(SettingsKEY) = Null
  /\ Returned(1, "ModelMappingDB.get") =>
       /\ kv = ghost.before.kv
       /\ ~HadRow(ModelsKEY) =>
            proc[1].ret = DEFAULT_MODELS_MAPS /\ kvGet(ModelsKEY) = Null

\* SystemSettingsDB.get has returned the default from a store that holds a
\* mappings record and no settings record, its read having succeeded
C11_Witness ==
  /\ Returned(1, "SystemSettingsDB.get")
  /\ ~ghost.before.error
  /\ ~HadRow(SettingsKEY) /\ HadRow(ModelsKEY)
  /\ proc[1].ret = DefaultSystemSettings
  /\ kvGet(SettingsKEY) = Null

\* the settings stored when the latest call started, or the default
Previous == IF HadRow(SettingsKEY) THEN ghost.before.kv[makeKey(SettingsKEY)]
            ELSE DefaultSystemSettings

\* C15: SystemSettingsDB.update(partial) is a merge-patch: the record stored
\* and returned afterwards has every field named in partial set to the value
\* supplied and every other field equal to its previously stored value (the
\* default when no record was stored), also when the read inside update fails.
C15_MergePatch ==
  Returned(1, "SystemSettingsDB.update") =>
    \A r \in {proc[1].ret, kvGet(SettingsKEY)} :
      /\ r # Null
      /\ \A f \in DOMAIN DefaultSystemSettings :
           r[f] = IF f \in DOMAIN ghost.before.given
                    THEN ghost.before.given[f] ELSE Previous[f]

-----------------------------------------------------------------------------
(* The key codec and the prefix scan, one caller: kvSet under keys of any   *)
(* shape and kvList under prefixes of any shape.  A row's value records the *)
(* key sequence it was written under.                                       *)

\* the key sequences written and the prefixes scanned
CodecKeys ==
  {<<"cookies", 1>>, <<"cookies", 1, "x">>, <<"cookies", 10, "x">>, <<"logs", 1, "x">>}
CodecPrefixes == {<<"cookies">>, <<"cookies", 1>>, <<"cookies", 10>>, <<"logs">>}

\* await kvSet(key, value)
KV_set(p, key) ==
  /\ Ready(p)
  /\ kv' = kvSet(key, [segments |-> key])
  /\ ReturnVoid(p, "kvSet", key)
  /\ UNCHANGED <<now, nextId>>

\* await kvDelete(key)
KV_delete(p, key) ==
  /\ Ready(p)
  /\ kv' = kvDelete(key)
  /\ ReturnVoid(p, "kvDelete", key)
  /\ UNCHANGED <<now, nextId>>

\* await kvList(prefix)
KV_list(p, prefix) ==
  /\ Ready(p)
  /\ \E list \in kvList(prefix) : Return(p, "kvList", prefix, list)
  /\ UNCHANGED <<kv, now, nextId>>

CodecNext ==
  \/ \E key \in CodecKeys : KV_set(1, key) /\ UNCHANGED ghost
  \/ \E key \in CodecKeys : KV_delete(1, key) /\ UNCHANGED ghost
  \/ \E prefix \in CodecPrefixes : KV_list(1, prefix) /\ UNCHANGED ghost

SpecCodec == Init /\ [][CodecNext]_vars

\* pre is a segment-wise prefix of key
SegmentPrefix(pre, key) ==
  /\ Len(pre) <= Len(key)
  /\ \A i \in 1..Len(pre) : Str(pre[i]) = Str(key[i])

\* C12: the encoded form of a key sequence p is a string prefix of the
\* encoded form of a key sequence k only when p is a segment-wise prefix of
\* k: every row a scan for p returns was written under a key that has p as
\* its first segments.
C12_PrefixIsolation ==
  Returned(1, "kvList") =>
    \A i \in 1..Len(proc[1].ret) :
      SegmentPrefix(proc[1].id, proc[1].ret[i].value.segments)

-----------------------------------------------------------------------------
(* Calls on targets that may be missing, callers racing: update,            *)
(* incrementFailCount, resetFailCount and incrementRequestCount on ids and  *)
(* keys never added, not yet added, or deleted.  ghost.call[p].existed      *)
(* tells whether the target was stored at the latest read p's call made.    *)

MissingCookieUpdates == {[isValid |-> FALSE]}
MissingKeyUpdates == {[isEnabled |-> FALSE]}

\* some stored API key has the key
KeyInUse(key) == \E id \in Ids(MaxIds) : KeyStored(id) /\ ApiKey(id).key = key

Noted(p, existed) == ghost' = [ghost EXCEPT !.call[p] = [existed |-> existed]]

MissingNext ==
  \E p \in Procs :
    \/ nextId < MaxIds /\ CookieDB_add(p, FreshCookie(FALSE)) /\ UNCHANGED ghost
    \/ \E id \in Ids(MaxIds), u \in MissingCookieUpdates :
         CookieDB_update(p, id, u) /\ Noted(p, Stored(id))
    \/ \E id \in Ids(MaxIds) : CookieDB_incrementFailCount(p, id) /\ Noted(p, Stored(id))
    \/ CookieDB_incrementFailCount_update(p) /\ Noted(p, Stored(proc[p].id))
    \/ \E id \in Ids(MaxIds) : CookieDB_resetFailCount(p, id) /\ Noted(p, Stored(id))
    \/ CookieDB_update_set(p) /\ UNCHANGED ghost
    \/ \E id \in Ids(MaxIds) : CookieDB_delete(p, id) /\ UNCHANGED ghost
    \/ CookieDB_delete_delete(p) /\ UNCHANGED ghost
    \/ nextId < MaxIds /\ ApiKeyDB_add(p, NewApiKey("sk-a", FALSE)) /\ UNCHANGED ghost
    \/ \E id \in Ids(MaxIds), u \in MissingKeyUpdates :
         ApiKeyDB_update(p, id, u) /\ Noted(p, KeyStored(id))
    \/ \E k \in KeyValues : ApiKeyDB_incrementRequestCount(p, k) /\ Noted(p, KeyInUse(k))
    \/ ApiKeyDB_incrementRequestCount_update(p) /\ Noted(p, KeyStored(proc[p].id))
    \/ ApiKeyDB_update_set(p) /\ UNCHANGED ghost
    \/ \E id \in Ids(MaxIds) : ApiKeyDB_delete(p, id) /\ UNCHANGED ghost
    \/ ApiKeyDB_delete_delete(p) /\ UNCHANGED ghost

SpecMissing == Init /\ [][MissingNext]_vars

\* the calls that go through update
UpdateOps == {"update", "incrementFailCount", "resetFailCount", "incrementRequestCount"}

\* the step is a read of p's call
Reads(p) ==
  /\ proc'[p] # proc[p] \/ ghost'.call[p] # ghost.call[p]
  /\ proc[p].pc \in {"idle", "done", "inc_update", "key_inc_update"}
  /\ proc'[p].pc # "idle" /\ proc'[p].op \in UpdateOps

\* the step is the write of p's call
Puts(p) == proc[p].pc \in {"upd_set", "key_upd_set"} /\ proc'[p].pc = "done"

\* C13: update(id, partial) returns true exactly when a record with that id
\* existed at its read; a read of update, incrementFailCount, resetFailCount
\* or incrementRequestCount that finds no target ends the call with the
\* store unchanged, and a call writes only after a read that found its
\* target: none of them creates a record.
C13_MissingTarget ==
  [][\A p \in Procs :
       /\ (Returned(p, "update") => proc[p].ret = ghost.call[p].existed)'
       /\ (Reads(p) /\ ~ghost'.call[p].existed) => (kv' = kv /\ proc'[p].pc = "done")
       /\ Puts(p) => ghost.call[p].existed]_vars

\* on a store whose one record has been deleted, an update has returned
\* false and an incrementFailCount has returned, both having found nothing
C13_Witness ==
  \E p, q \in Procs :
    /\ Returned(p, "update") /\ ~proc[p].ret /\ ~ghost.call[p].existed
    /\ Returned(q, "incrementFailCount") /\ ~ghost.call[q].existed
    /\ nextId = MaxIds
    /\ kv = <<>>

-----------------------------------------------------------------------------
(* CookieDB, one caller, over a backend whose reads and writes may fail.   *)
(* ghost.before is as in the settings stores, error being that of the      *)
(* call's read; ghost.call[1] counts the upserts the latest call attempted *)
(* and tells whether the last of them failed.                              *)

FaultyUpdates == {[isValid |-> b] : b \in BOOLEAN}

\* the call has attempted n upserts, the last of them failing or not
Attempted(n, error) == ghost' = [ghost EXCEPT !.call[1] = [writes |-> n, error |-> error]]

\* the call starts with a read
StartsRead(given, error) ==
  ghost' = [ghost EXCEPT !.before = [kv |-> kv, given |-> given, error |-> error],
                         !.call[1] = [writes |-> 0, error |-> FALSE]]

\* the call starts with its one write
StartsWrite(given, error) ==
  ghost' = [ghost EXCEPT !.before = [kv |-> kv, given |-> given, error |-> FALSE],
                         !.call[1] = [writes |-> 1, error |-> error]]

FaultyNext ==
  \/ \E d \in BOOLEAN, error \in BOOLEAN :
       /\ nextId < MaxSeqIds
       /\ CookieDB_add_err(1, FreshCookie(d), error)
       /\ StartsWrite(FreshCookie(d), error)
  \/ \E id \in Ids(MaxSeqIds), error \in BOOLEAN :
       CookieDB_get_err(1, id, error) /\ StartsRead(Null, error)
  \/ \E id \in Ids(MaxSeqIds), u \in FaultyUpdates, error \in BOOLEAN :
       CookieDB_update_err(1, id, u, error) /\ StartsRead(u, error)
  \/ \E error \in BOOLEAN :
       CookieDB_update_set_err(1, error) /\ Attempted(ghost.call[1].writes + 1, error)
  \/ \E id \in Ids(MaxSeqIds), error \in BOOLEAN :
       CookieDB_delete_err(1, id, error) /\ StartsRead(Null, error)
  \/ CookieDB_delete_delete(1) /\ UNCHANGED ghost

SpecFaulty == Init /\ [][FaultyNext]_vars

\* C14: a failed backend read is treated as absence: when the read inside
\* get fails, get returns null, and update(id, ...) and delete(id), on an
\* existing record too, return false and write and delete nothing: the table
\* is as it was when the call started.
C14_FailedRead ==
  /\ (Returned(1, "get") /\ ghost.before.error) => proc[1].ret = Null
  /\ ((Returned(1, "update") \/ Returned(1, "delete")) /\ ghost.before.error) =>
       (proc[1].ret = FALSE /\ kv = ghost.before.kv)

\* update has returned false for a stored record that it would have
\* changed, its read having failed
C14_Witness ==
  /\ Returned(1, "update") /\ ghost.before.error
  /\ ~proc[1].ret
  /\ Stored(proc[1].id)
  /\ Cookie(proc[1].id).isValid # ghost.before.given.isValid

\* C16: a lost backend write is not signalled: add and update attempt their
\* write once; when it fails, add still returns the new record and update
\* still returns true, and the table is as it was when the call started: a
\* get of the id finds nothing after the add, and the old value after the
\* update.
C16_LostWrite ==
  /\ Returned(1, "add") =>
       /\ ghost.call[1].writes = 1
       /\ ghost.call[1].error =>
            /\ proc[1].ret.id = proc[1].id
            /\ \A f \in DOMAIN ghost.before.given : proc[1].ret[f] = ghost.before.given[f]
            /\ CookieDB_get(proc[1].id) = Null
            /\ kv = ghost.before.kv
  /\ (Returned(1, "update") /\ proc[1].ret) =>
       /\ ghost.call[1].writes = 1
       /\ ghost.call[1].error =>
            /\ CookieDB_get(proc[1].id) = ghost.before.kv[makeKey(CookieKey(proc[1].id))]
            /\ kv = ghost.before.kv

\* update has returned true although its write was lost: the stored record
\* is without the change
C16_Witness ==
  /\ Returned(1, "update") /\ proc[1].ret
  /\ ghost.call[1].error
  /\ Stored(proc[1].id)
  /\ Cookie(proc[1].id).isValid # ghost.before.given.isValid

-----------------------------------------------------------------------------
(* The usage counter, one caller: keys added at different times, several   *)
(* of them with the same key value, updates that name the id field, and    *)
(* incrementRequestCount.  ghost.before holds the table and the key of the *)
(* latest incrementRequestCount.                                           *)

\* the Partial<ApiKey> values callers of update supply here
UseUpdates == {[id |-> i] : i \in Ids(MaxSeqIds)}

UseNext ==
  \/ \E k \in KeyValues :
       nextId < MaxSeqIds /\ ApiKeyDB_add(1, NewApiKey(k, FALSE)) /\ UNCHANGED ghost
  \/ \E k \in KeyValues : ApiKeyDB_incrementRequestCount(1, k) /\ Starts(k, FALSE)
  \/ ApiKeyDB_incrementRequestCount_update(1) /\ UNCHANGED ghost
  \/ \E id \in Ids(MaxSeqIds), u \in UseUpdates :
       ApiKeyDB_update(1, id, u) /\ UNCHANGED ghost
  \/ ApiKeyDB_update_set(1) /\ UNCHANGED ghost
  \/ Tick /\ UNCHANGED ghost

SpecUse == Init /\ [][UseNext]_vars

\* the rows whose entry had the key when the latest call started
Matches == {k \in DOMAIN ghost.before.kv : ghost.before.kv[k].key = ghost.before.given}

\* no row of S was created before row k
Earliest(k, S) ==
  \A m \in S : ghost.before.kv[k].createdAt <= ghost.before.kv[m].createdAt

\* C17, as claimed: incrementRequestCount(key), run with no concurrent
\* operation, increases by exactly 1 the requestCount of the stored entry
\* whose key field equals key (one with the smallest createdAt when several
\* match) and changes no other entry and no other field; when no entry has
\* the key, the table is as it was.
C17_CountsOne ==
  Returned(1, "incrementRequestCount") =>
    IF Matches = {} THEN kv = ghost.before.kv
    ELSE \E k \in Matches :
           /\ Earliest(k, Matches)
           /\ kv = [ghost.before.kv EXCEPT ![k].requestCount = @ + 1]

\* every entry is stored under its own id field
OwnIds(table) ==
  \A id \in Ids(MaxSeqIds) :
    makeKey(ApiKeyKey(id)) \in DOMAIN table => table[makeKey(ApiKeyKey(id))].id = id

\* C17, amended: incrementRequestCount(key), run with no concurrent
\* operation, finds a stored entry whose key field equals key, one with the
\* smallest createdAt among them, and sets the requestCount of the row
\* stored under that entry's id field to the entry's requestCount plus 1,
\* changing no other row and no other field; when there is no such row, or
\* no entry has the key, the table is as it was.  When every entry is stored
\* under its own id field, that row is the entry found, and its
\* requestCount has increased by exactly 1.
C17_CountsFound ==
  Returned(1, "incrementRequestCount") =>
    /\ IF Matches = {} THEN kv = ghost.before.kv
       ELSE \E k \in Matches :
              /\ Earliest(k, Matches)
              /\ LET found == ghost.before.kv[k]
                     target == makeKey(ApiKeyKey(found.id))
                 IN kv = IF target \in DOMAIN ghost.before.kv
                           THEN [ghost.before.kv EXCEPT
                                   ![target].requestCount = found.requestCount + 1]
                           ELSE ghost.before.kv
    /\ OwnIds(ghost.before.kv) => C17_CountsOne

\* every entry is stored under its own id field, two of them have the key,
\* one created after the other, and the call has counted a use on the
\* earlier one for the second time
C17_Witness ==
  /\ Returned(1, "incrementRequestCount")
  /\ OwnIds(ghost.before.kv)
  /\ \E k, m \in Matches :
       /\ ghost.before.kv[k].createdAt < ghost.before.kv[m].createdAt
       /\ kv[k].requestCount = 2
       /\ kv[m].requestCount = 0

-----------------------------------------------------------------------------
(* The listings, one caller: getAll, getValidCookies and getEnabledKeys    *)
(* over cookies and keys added at different times.                         *)

\* return await this.getAll(), and the filters over it, as calls of their own
CookieDB_getAll_call(p) ==
  /\ Ready(p)
  /\ \E all \in CookieDB_getAll : Return(p, "CookieDB.getAll", "", all)
  /\ UNCHANGED <<kv, now, nextId>>

CookieDB_getValidCookies_call(p) ==
  /\ Ready(p)
  /\ \E valid \in CookieDB_getValidCookies : Return(p, "CookieDB.getValidCookies", "", valid)
  /\ UNCHANGED <<kv, now, nextId>>

ApiKeyDB_getAll_call(p) ==
  /\ Ready(p)
  /\ \E all \in ApiKeyDB_getAll : Return(p, "ApiKeyDB.getAll", "", all)
  /\ UNCHANGED <<kv, now, nextId>>

ApiKeyDB_getEnabledKeys_call(p) ==
  /\ Ready(p)
  /\ \E enabled \in ApiKeyDB_getEnabledKeys : Return(p, "ApiKeyDB.getEnabledKeys", "", enabled)
  /\ UNCHANGED <<kv, now, nextId>>

ListNext ==
  \/ nextId < MaxSeqIds /\ CookieDB_add(1, FreshCookie(FALSE)) /\ UNCHANGED ghost
  \/ \E id \in Ids(MaxSeqIds) : CookieDB_update(1, id, [isValid |-> FALSE]) /\ UNCHANGED ghost
  \/ CookieDB_update_set(1) /\ UNCHANGED ghost
  \/ CookieDB_getAll_call(1) /\ UNCHANGED ghost
  \/ CookieDB_getValidCookies_call(1) /\ UNCHANGED ghost
  \/ nextId < MaxSeqIds /\ ApiKeyDB_add(1, NewApiKey("sk-a", FALSE)) /\ UNCHANGED ghost
  \/ \E id \in Ids(MaxSeqIds) : ApiKeyDB_update(1, id, [isEnabled |-> FALSE]) /\ UNCHANGED ghost
  \/ ApiKeyDB_update_set(1) /\ UNCHANGED ghost
  \/ ApiKeyDB_getAll_call(1) /\ UNCHANGED ghost
  \/ ApiKeyDB_getEnabledKeys_call(1) /\ UNCHANGED ghost
  \/ Tick /\ UNCHANGED ghost

SpecList == Init /\ [][ListNext]_vars

\* the records stored in the two collections
StoredCookies == {Cookie(id) : id \in {i \in Ids(MaxSeqIds) : Stored(i)}}
StoredKeys == {ApiKey(id) : id \in {i \in Ids(MaxSeqIds) : KeyStored(i)}}

\* seq holds each record of S once, in ascending order of createdAt
Lists(seq, S) ==
  /\ Len(seq) = Cardinality(S)
  /\ {seq[i] : i \in 1..Len(seq)} = S
  /\ \A i, j \in 1..Len(seq) : i < j => seq[i].createdAt <= seq[j].createdAt

\* C18: getAll() returns exactly the records stored in the collection,
\* sorted ascending by createdAt; getValidCookies() returns exactly those of
\* them with isValid true and getEnabledKeys() those with isEnabled true, in
\* the same createdAt-ascending order.
C18_Listings ==
  /\ Returned(1, "CookieDB.getAll") => Lists(proc[1].ret, StoredCookies)
  /\ Returned(1, "CookieDB.getValidCookies") =>
       Lists(proc[1].ret, {c \in StoredCookies : c.isValid})
  /\ Returned(1, "ApiKeyDB.getAll") => Lists(proc[1].ret, StoredKeys)
  /\ Returned(1, "ApiKeyDB.getEnabledKeys") =>
       Lists(proc[1].ret, {a \in StoredKeys : a.isEnabled})

\* getAll has returned two cookies created at different times, the earlier
\* one invalid
C18_Witness ==
  /\ Returned(1, "CookieDB.getAll")
  /\ Len(proc[1].ret) = 2
  /\ proc[1].ret[1].createdAt < proc[1].ret[2].createdAt
  /\ ~proc[1].ret[1].isValid /\ proc[1].ret[2].isValid

-----------------------------------------------------------------------------
(* Keys and id fields, one caller: add, update and delete of CookieDB and  *)
(* of ApiKeyDB, with updates that name the id field among the others.      *)

\* the Partial<Cookie> and Partial<ApiKey> values callers of update supply here
IdentCookieUpdates == {[id |-> i] : i \in Ids(MaxSeqIds)} \cup {[isValid |-> FALSE]}
IdentKeyUpdates == {[id |-> i] : i \in Ids(MaxSeqIds)} \cup {[isEnabled |-> FALSE]}

IdentNext ==
  \/ nextId < MaxSeqIds /\ CookieDB_add(1, FreshCookie(FALSE)) /\ UNCHANGED ghost
  \/ \E id \in Ids(MaxSeqIds), u \in IdentCookieUpdates :
       CookieDB_update(1, id, u) /\ UNCHANGED ghost
  \/ CookieDB_update_set(1) /\ UNCHANGED ghost
  \/ \E id \in Ids(MaxSeqIds) : CookieDB_delete(1, id) /\ UNCHANGED ghost
  \/ CookieDB_delete_delete(1) /\ UNCHANGED ghost
  \/ nextId < MaxSeqIds /\ ApiKeyDB_add(1, NewApiKey("sk-a", FALSE)) /\ UNCHANGED ghost
  \/ \E id \in Ids(MaxSeqIds), u \in IdentKeyUpdates :
       ApiKeyDB_update(1, id, u) /\ UNCHANGED ghost
  \/ ApiKeyDB_update_set(1) /\ UNCHANGED ghost
  \/ \E id \in Ids(MaxSeqIds) : ApiKeyDB_delete(1, id) /\ UNCHANGED ghost
  \/ ApiKeyDB_delete_delete(1) /\ UNCHANGED ghost

SpecIdent == Init /\ [][IdentNext]_vars

\* the row under k holds a record whose id field is the id of k
OwnKey(table, k) ==
  k \in {makeKey(CookieKey(table[k].id)), makeKey(ApiKeyKey(table[k].id))}

\* C20, as claimed: in every reachable state, every record stored under key
\* [prefix, id] in the cookie or API key collection has its id field equal
\* to that id, after any sequence of add, update(id, partial) with an
\* arbitrary partial (one that names id included), and delete.
C20_KeyIdConsistent == \A k \in DOMAIN kv : OwnKey(kv, k)

\* C20, amended: add stores the record under the id it gave it, and delete
\* and an update whose partial does not name id leave every stored record's
\* id field as it was; the write of update(id, partial) with partial naming
\* id stores under [prefix, id] a record whose id field is partial.id, and
\* it is the one step after which a record is stored under a key other than
\* that of its id field when none was before.
C20_IdWrites ==
  [][/\ \A k \in DOMAIN kv' :
          (~OwnKey(kv', k) /\ (k \in DOMAIN kv => OwnKey(kv, k))) =>
            /\ Puts(1)
            /\ k \in {makeKey(CookieKey(proc[1].id)), makeKey(ApiKeyKey(proc[1].id))}
            /\ "id" \in DOMAIN proc[1].updates
     /\ (Puts(1) /\ "id" \in DOMAIN proc[1].updates) =>
          \E k \in {makeKey(CookieKey(proc[1].id)), makeKey(ApiKeyKey(proc[1].id))} :
            k \in DOMAIN kv' /\ kv'[k].id = proc[1].updates.id]_vars

\* two records are stored, each under its own id, one of them a cookie that
\* an update not naming id has made invalid, and a delete has returned true
C20_Witness ==
  /\ Returned(1, "delete") /\ proc[1].ret
  /\ nextId = MaxSeqIds
  /\ C20_KeyIdConsistent
  /\ \E id \in Ids(MaxSeqIds) : Stored(id) /\ ~Cookie(id).isValid

====
